---------------------------- MODULE Spec2Model ----------------------------
(***************************************************************************)
(* A model of shell.c: the read loop of main, continueProcessingLine,      *)
(* doPipe, the do*Redirection functions, the fork/pipe wrappers and the    *)
(* SIGINT handler, over a small process table, pipes and one file.         *)
(*                                                                         *)
(* A token is a sequence of one-character strings, so that isSpecial can   *)
(* look at its length and its characters as the C code does.  NULL is the  *)
(* sentinel that ends the token array and an argument vector.              *)
(***************************************************************************)
EXTENDS Integers, Sequences, FiniteSets, TLC

\* ------------------------------------------------------------- bounds
MaxProcs == 4
MaxLines == 2
MaxOut == 1
MaxFaults == 1
MaxInterrupts == 1
MaxTokens == 3
MaxAnyLines == 1

\* ------------------------------------------------------------- tokens
NULL == <<>>
TokPipe == <<"|">>
TokOut == <<">">>
TokIn == <<"<">>
TokAppend == <<">", ">">>
TokErr == <<"2", ">">>
TokBoth == <<"&", ">">>
TokLs == <<"l", "s">>
TokRm == <<"r", "m">>
TokExit == <<"e", "x", "i", "t">>
\* a token isSpecial takes for an operator and continueProcessingLine does not know
TokOneOut == <<"1", ">">>
\* two programs execvp can find, one name it cannot, a plain argument, a file
ProgA == <<"a">>
ProgB == <<"b">>
NoProg == <<"n">>
ArgX == <<"x">>
FileF == <<"f">>

Programs == {ProgA, ProgB}

\* the tokens of an arbitrary line, and every line of at most MaxTokens of them
AnyTokens == {ProgA, FileF, TokPipe, TokOut, TokIn, TokAppend, TokOneOut}

AnyLines == UNION {[1..n -> AnyTokens] : n \in 0..MaxTokens}

\* open() takes whatever token follows a redirect operator for a file name
FileNames == {FileF} \cup AnyTokens

\* the lines the user may type
Lines ==
  { <<>>,
    <<TokExit>>,
    <<TokLs>>,
    <<TokLs, TokPipe, ProgB>>,
    <<TokRm, FileF>>,
    <<ProgA>>,
    <<NoProg>>,
    <<ProgA, TokPipe, ProgB>>,
    <<ProgA, ArgX, TokPipe, ProgB>>,
    <<NoProg, TokPipe, ProgB>>,
    <<ProgA, ArgX, TokPipe, ProgB, TokPipe, ProgA>>,
    <<ProgA, TokOut, FileF>>,
    <<ProgA, TokAppend, FileF>>,
    <<ProgA, TokIn, FileF>>,
    <<ProgA, TokErr, FileF>>,
    <<ProgA, TokBoth, FileF>>,
    <<ProgA, TokOneOut, FileF>>,
    <<ProgA, TokOut, FileF, TokAppend, FileF>> }

\* ------------------------------------------------------------- constants of the C code
SIGINT == 2
SIGSEGV == 11
SIGPIPE == 13
ShellPid == 1
\* the capacity of an argument vector, char* args[MAX_ARGS]
MAX_ARGS == 3
Pids == 1..MaxProcs

\* the wait status of a process that ended with exit code ret or by signal sig
W_EXITCODE(ret, sig) == ret * 256 + sig

\* line[i], with the C code's 0-based index; the sentinel follows the last token
At(line, i) == IF i >= 0 /\ i < Len(line) THEN line[i + 1] ELSE NULL

\* the two macros taken for each other
CHILD_PID_AsParent(pid) == pid > 0

CHILD_PID(pid) == pid = 0

isSpecial(token) ==
  \/ (Len(token) = 1 /\ token[1] \in {"<", ">", "|"})
  \/ (Len(token) = 2 /\ token[2] = ">")

RECURSIVE parseLoop(_, _, _)
parseLoop(args, line, lineIndex) ==
  IF At(line, lineIndex) # NULL /\ ~isSpecial(At(line, lineIndex))
  THEN parseLoop(Append(args, At(line, lineIndex)), line, lineIndex + 1)
  ELSE [args |-> args, lineIndex |-> lineIndex]

\* parseArgs starting one token too far
parseArgsFromNext(line, lineIndex) == parseLoop(<<>>, line, lineIndex + 1)

parseArgs(line, lineIndex) == parseLoop(<<>>, line, lineIndex)

\* what execvp(file, argv) can do: replace the image, return -1, or (file NULL,
\* which execvp dereferences) fault
execvp(file) ==
  IF file = NULL THEN {"fail", "crash"}
  ELSE IF file \in Programs THEN {"ok"}
  ELSE {"fail"}

\* ------------------------------------------------------------- descriptors
TTY == [kind |-> "tty", id |-> 0]
CLOSED == [kind |-> "closed", id |-> 0]
ReadEnd(k) == [kind |-> "pr", id |-> k]
WriteEnd(k) == [kind |-> "pw", id |-> k]
FileDesc(o) == [kind |-> "file", id |-> o]

VARIABLES
  proc,       \* the process table: pid -> the process's state
  nextPid,    \* the next process id fork hands out
  pipes,      \* the pipes created so far: buffer, history, the two sides of the fork
  files,      \* file name -> inode number, 0 when the name does not exist
  inodes,     \* inode number -> the file's bytes
  ofds,       \* open file descriptions: inode, append flag, offset
  sent,       \* every kill(pid, signo) call made so far, in order
  nread,      \* lines read so far by promptAndRead
  faults,     \* pipe()/fork() failures so far
  nintr,      \* interrupts delivered to the shell so far
  start       \* how the file F started: it never changes

vars == <<proc, nextPid, pipes, files, inodes, ofds, sent, nread, faults, nintr, start>>

NoProc ==
  [ pc |-> "none", ppid |-> 0, line |-> <<>>, lineIndex |-> 0, args |-> <<>>,
    childPid |-> 0, ret |-> 0, fd |-> <<CLOSED, CLOSED, CLOSED>>, raw |-> {},
    pipefd |-> 0, p1Args |-> <<>>, prog |-> NULL, argv |-> <<>>, status |-> 0,
    wstatus |-> 0, cause |-> "none", nout |-> 0, rlog |-> <<>>, eof |-> FALSE,
    pending |-> FALSE, origin |-> "none", maxStore |-> 0 ]

\* the file F starts absent, empty, or holding one byte
InitialFiles == {"absent", "empty", "content"}
OldByte == <<0, 1>>

Init ==
  /\ proc = [p \in Pids |->
       IF p = ShellPid
       THEN [NoProc EXCEPT !.pc = "prompt", !.fd = <<TTY, TTY, TTY>>,
                          !.origin = "shell"]
       ELSE NoProc]
  /\ nextPid = ShellPid + 1
  /\ pipes = <<>>
  /\ \E s \in InitialFiles :
       /\ start = s
       /\ files = [f \in FileNames |-> IF f = FileF /\ s # "absent" THEN 1 ELSE 0]
       /\ inodes = IF s = "content" THEN << <<OldByte>> >>
                  ELSE IF s = "empty" THEN << <<>> >> ELSE <<>>
  /\ ofds = <<>>
  /\ sent = <<>>
  /\ nread = 0
  /\ faults = 0
  /\ nintr = 0

\* ------------------------------------------------------------- helpers
\* the descriptor a process has at file descriptor number n (0, 1 or 2)
Fd(r, n) == r.fd[n + 1]

\* dup2(d, n): file descriptor number n now names d
dup2(fd, d, n) == [fd EXCEPT ![n + 1] = d]

\* every descriptor a process holds open, under whatever number
Holds(r) == {r.fd[1], r.fd[2], r.fd[3]} \cup r.raw

Holders(d) == {q \in Pids : d \in Holds(proc[q])}

\* _exit/exit/return from main, or death by a signal: the process is a zombie with
\* the given wait status and its descriptors are closed
Terminated(r, status, cause) ==
  [r EXCEPT !.pc = "exited", !.status = status, !.cause = cause,
            !.fd = <<CLOSED, CLOSED, CLOSED>>, !.raw = {}, !.pending = FALSE]

\* a successful execvp: the image is file, started with argv
Image(r, file, argv) == [r EXCEPT !.pc = "run", !.prog = file, !.argv = argv]

\* back at the top of main's loop, about to call promptAndRead
AtPrompt(r) == [r EXCEPT !.pc = "prompt", !.lineIndex = 0, !.args = <<>>]

Exists(name) == name \in FileNames /\ files[name] # 0

\* ------------------------------------------------------------- main
\* unlink every name of args[1..] that open() finds
doRm(args) ==
  files' = [f \in FileNames |->
              IF \E i \in 2..Len(args) : args[i] = f THEN 0 ELSE files[f]]

\* the strcmp chain of main with its first test never matching
BuiltInNoLs(head) == IF head = TokRm THEN "rm" ELSE "none"

\* the strcmp chain of main: which built-in args[0] names
BuiltIn(head) == IF head = TokLs THEN "ls" ELSE IF head = TokRm THEN "rm" ELSE "none"

\* parseArgs stores its last pointer, the terminator, at index Len(args): beyond
\* the array when that is MAX_ARGS or more
Overflows(args) == Len(args) >= MAX_ARGS

\* promptAndRead, the loop test, parseArgs and the dispatch to a built-in.  A store
\* beyond args[] and strcmp(NULL, "ls") are undefined: the process faults, or goes
\* on as if the store had hit nothing and the comparison were unequal
ReadLineFrom(p, menu, limit) ==
  /\ proc[p].pc = "prompt"
  /\ nread < limit
  /\ nread' = nread + 1
  /\ \E line \in menu :
       LET r == [proc[p] EXCEPT !.line = line]
           pa == parseArgs(line, 0)
           parsed == [r EXCEPT !.maxStore = Len(pa.args)]
       IN
         IF At(line, 0) # NULL /\ At(line, 0) = TokExit
         THEN /\ proc' = [proc EXCEPT ![p] = Terminated(r, W_EXITCODE(0, 0), "none")]
              /\ UNCHANGED files
         ELSE IF At(line, 0) = NULL
         THEN /\ proc' = [proc EXCEPT ![p] = AtPrompt(r)]
              /\ UNCHANGED files
         ELSE \/ /\ Overflows(pa.args) \/ At(pa.args, 0) = NULL
                 /\ proc' = [proc EXCEPT ![p] =
                      Terminated(parsed, W_EXITCODE(0, SIGSEGV), "crash")]
                 /\ UNCHANGED files
              \/ /\ BuiltIn(At(pa.args, 0)) = "ls"
                 /\ proc' = [proc EXCEPT ![p] = AtPrompt(parsed)]
                 /\ UNCHANGED files
              \/ /\ BuiltIn(At(pa.args, 0)) = "rm"
                 /\ proc' = [proc EXCEPT ![p] = AtPrompt(parsed)]
                 /\ doRm(pa.args)
              \/ /\ BuiltIn(At(pa.args, 0)) = "none"
                 /\ proc' = [proc EXCEPT ![p] = [parsed EXCEPT !.pc = "fork",
                                !.args = pa.args, !.lineIndex = pa.lineIndex]]
                 /\ UNCHANGED files
  /\ UNCHANGED <<nextPid, pipes, inodes, ofds, sent, faults, nintr, start>>

\* the user types one of the lines of the menu
ReadLine(p) == ReadLineFrom(p, Lines, MaxLines)

\* the user types an arbitrary line
ReadAnyLine(p) == ReadLineFrom(p, AnyLines, MaxAnyLines)

\* fork(): the child is a copy of the caller; fork returns 0 in it and the child's
\* id in the caller
Forked(r, p, origin) ==
  [r EXCEPT !.ppid = p, !.ret = 0, !.pending = FALSE, !.origin = origin,
            !.cause = "none", !.wstatus = 0]

\* forkWrapper at main's fork point, fork succeeding
MainFork(p) ==
  /\ proc[p].pc = "fork"
  /\ nextPid <= MaxProcs
  /\ proc' = [proc EXCEPT
       ![p] = [proc[p] EXCEPT !.pc = "store", !.ret = nextPid],
       ![nextPid] = [Forked(proc[p], p, "main") EXCEPT !.pc = "store"]]
  /\ nextPid' = nextPid + 1
  /\ UNCHANGED <<pipes, files, inodes, ofds, sent, nread, faults, nintr, start>>

\* forkWrapper at main's fork point, fork failing: perror and _exit(2)
MainForkFail(p) ==
  /\ proc[p].pc = "fork"
  /\ faults < MaxFaults
  /\ faults' = faults + 1
  /\ proc' = [proc EXCEPT ![p] = Terminated(proc[p], W_EXITCODE(2, 0), "fork")]
  /\ UNCHANGED <<nextPid, pipes, files, inodes, ofds, sent, nread, nintr, start>>

\* childPid = <what forkWrapper returned>, and the branch on it
StoreChildPid(p) ==
  /\ proc[p].pc = "store"
  /\ proc' = [proc EXCEPT ![p] =
       [proc[p] EXCEPT !.childPid = proc[p].ret,
                       !.pc = IF CHILD_PID(proc[p].ret) THEN "cpl" ELSE "wait"]]
  /\ UNCHANGED <<nextPid, pipes, files, inodes, ofds, sent, nread, faults, nintr, start>>

\* waitpid(childPid, &status, 0) returns once that child has terminated
WaitPid(p) ==
  /\ proc[p].pc = "wait"
  /\ LET c == proc[p].childPid IN
       /\ c \in Pids
       /\ proc[c].pc = "exited"
       /\ proc[c].ppid = p
       /\ proc' = [proc EXCEPT
            ![p] = [AtPrompt(proc[p]) EXCEPT !.wstatus = proc[c].status],
            ![c] = [proc[c] EXCEPT !.pc = "reaped"]]
  /\ UNCHANGED <<nextPid, pipes, files, inodes, ofds, sent, nread, faults, nintr, start>>

\* ------------------------------------------------------------- redirection
\* each do*Redirection: the flags it opens the file with and the file descriptor
\* numbers it rebinds with dup2
doAppendRedirection == [creat |-> FALSE, trunc |-> FALSE, app |-> TRUE, fds |-> {1}]

doStdoutRedirection == [creat |-> TRUE, trunc |-> TRUE, app |-> FALSE, fds |-> {1}]

\* doStderrRedirection with doStdoutRedirection's dup2(fd, 1)
doStderrRedirectionToStdout == [creat |-> TRUE, trunc |-> TRUE, app |-> FALSE, fds |-> {1}]

doStderrRedirection == [creat |-> TRUE, trunc |-> TRUE, app |-> FALSE, fds |-> {2}]

doStdoutStderrRedirection == [creat |-> TRUE, trunc |-> TRUE, app |-> FALSE, fds |-> {1, 2}]

doStdinRedirection == [creat |-> FALSE, trunc |-> FALSE, app |-> FALSE, fds |-> {0}]

RedirectOps == {TokAppend, TokErr, TokBoth, TokOut, TokIn}

\* the strcmp chain of continueProcessingLine
Redirection(tok) ==
  IF tok = TokAppend THEN doAppendRedirection
  ELSE IF tok = TokErr THEN doStderrRedirection
  ELSE IF tok = TokBoth THEN doStdoutStderrRedirection
  ELSE IF tok = TokOut THEN doStdoutRedirection
  ELSE doStdinRedirection

\* the two (*lineIndex)++ around a do*Redirection call, with one more
SkipOperandTwice(lineIndex) == lineIndex + 3

\* the two (*lineIndex)++ around a do*Redirection call
SkipOperand(lineIndex) == lineIndex + 2

\* open(filename, flags) succeeds: the name exists, or O_CREAT makes it
OpenSucceeds(filename, how) ==
  filename # NULL /\ filename \in FileNames /\ (how.creat \/ Exists(filename))

\* a redirect operator: step over it, open the file named by the next token,
\* rebind, step over the file name, and go round again with the same args
CplRedirect(p) ==
  /\ proc[p].pc = "cpl"
  /\ At(proc[p].line, proc[p].lineIndex) \in RedirectOps
  /\ LET r == proc[p]
         how == Redirection(At(r.line, r.lineIndex))
         filename == At(r.line, r.lineIndex + 1)
         ino == IF Exists(filename) THEN files[filename] ELSE Len(inodes) + 1
         d == FileDesc(Len(ofds) + 1)
     IN
       IF OpenSucceeds(filename, how)
       THEN /\ files' = [files EXCEPT ![filename] = ino]
            /\ inodes' = IF ~Exists(filename) THEN Append(inodes, <<>>)
                         ELSE IF how.trunc THEN [inodes EXCEPT ![ino] = <<>>]
                         ELSE inodes
            /\ ofds' = Append(ofds, [ino |-> ino, app |-> how.app, off |-> 0])
            /\ proc' = [proc EXCEPT ![p] =
                 [r EXCEPT !.fd = [n \in 1..3 |-> IF (n - 1) \in how.fds THEN d ELSE r.fd[n]],
                           !.lineIndex = SkipOperand(r.lineIndex)]]
       ELSE \* perror("Error opening file"); exit(1), the cursor on the file name
            /\ proc' = [proc EXCEPT ![p] =
                 Terminated([r EXCEPT !.lineIndex = r.lineIndex + 1],
                            W_EXITCODE(1, 0), "redirect")]
            /\ UNCHANGED <<files, inodes, ofds>>
  /\ UNCHANGED <<nextPid, pipes, sent, nread, faults, nintr, start>>

\* ------------------------------------------------------------- continueProcessingLine
\* the base case: execvp(line[0], args), and _exit(1) when it returns
CplTerminal(p) ==
  /\ proc[p].pc = "cpl"
  /\ At(proc[p].line, proc[p].lineIndex) = NULL
  /\ \E o \in execvp(At(proc[p].line, 0)) :
       proc' = [proc EXCEPT ![p] =
         IF o = "ok" THEN Image(proc[p], At(proc[p].line, 0), proc[p].args)
         ELSE IF o = "fail" THEN Terminated(proc[p], W_EXITCODE(1, 0), "exec")
         ELSE Terminated(proc[p], W_EXITCODE(0, SIGSEGV), "crash")]
  /\ UNCHANGED <<nextPid, pipes, files, inodes, ofds, sent, nread, faults, nintr, start>>

\* a token no branch of the strcmp chain matches: the function returns, through
\* every level of the recursion, to main, which goes on to promptAndRead
CplReturn(p) ==
  /\ proc[p].pc = "cpl"
  /\ At(proc[p].line, proc[p].lineIndex) \notin RedirectOps \cup {NULL, TokPipe}
  /\ proc' = [proc EXCEPT ![p] = AtPrompt(proc[p])]
  /\ UNCHANGED <<nextPid, pipes, files, inodes, ofds, sent, nread, faults, nintr, start>>

\* ------------------------------------------------------------- doPipe
AtPipe(p) ==
  /\ proc[p].pc = "cpl"
  /\ At(proc[p].line, proc[p].lineIndex) = TokPipe

\* pipeWrapper, pipe failing: perror and _exit(0)
DoPipePipeFail(p) ==
  /\ AtPipe(p)
  /\ faults < MaxFaults
  /\ faults' = faults + 1
  /\ proc' = [proc EXCEPT ![p] = Terminated(proc[p], W_EXITCODE(0, 0), "pipe")]
  /\ UNCHANGED <<nextPid, pipes, files, inodes, ofds, sent, nread, nintr, start>>

\* pipe succeeds and forkWrapper's fork fails: perror and _exit(2)
DoPipeForkFail(p) ==
  /\ AtPipe(p)
  /\ faults < MaxFaults
  /\ faults' = faults + 1
  /\ proc' = [proc EXCEPT ![p] = Terminated(proc[p], W_EXITCODE(2, 0), "fork")]
  /\ UNCHANGED <<nextPid, pipes, files, inodes, ofds, sent, nread, nintr, start>>

\* pipe and fork succeed: both processes hold both ends in pipefd[0], pipefd[1]
DoPipeFork(p) ==
  /\ AtPipe(p)
  /\ nextPid <= MaxProcs
  /\ LET k == Len(pipes) + 1
         r == [proc[p] EXCEPT !.lineIndex = proc[p].lineIndex + 1,
                              !.pipefd = k, !.p1Args = proc[p].args,
                              !.raw = proc[p].raw \cup {ReadEnd(k), WriteEnd(k)}]
     IN
       /\ pipes' = Append(pipes, [buf |-> <<>>, hist |-> <<>>, line |-> proc[p].line,
                                  wchild |-> nextPid, rparent |-> p])
       /\ proc' = [proc EXCEPT
            ![p] = [r EXCEPT !.pc = "pipeParent", !.ret = nextPid],
            ![nextPid] = [Forked(r, p, "pipe") EXCEPT !.pc = "pipeChild"]]
  /\ nextPid' = nextPid + 1
  /\ UNCHANGED <<files, inodes, ofds, sent, nread, faults, nintr, start>>

\* the child's descriptors after dup2(pipefd[1], 1); close(pipefd[0])
doPipeChildFds(r) ==
  [r EXCEPT !.fd = dup2(r.fd, WriteEnd(r.pipefd), 1),
            !.raw = r.raw \ {ReadEnd(r.pipefd)}]

\* the parent branch without its close(pipefd[1])
doPipeParentFdsNoClose(r) ==
  [r EXCEPT !.fd = dup2(r.fd, ReadEnd(r.pipefd), 0)]

\* the parent's descriptors after dup2(pipefd[0], 0); close(pipefd[1])
doPipeParentFds(r) ==
  [r EXCEPT !.fd = dup2(r.fd, ReadEnd(r.pipefd), 0),
            !.raw = r.raw \ {WriteEnd(r.pipefd)}]

\* the child branch: rebind, close, execvp(line[0], p1Args); when execvp returns,
\* so do doPipe and continueProcessingLine, and main goes on to promptAndRead
DoPipeChild(p) ==
  /\ proc[p].pc = "pipeChild"
  /\ LET r == doPipeChildFds(proc[p]) IN
       \E o \in execvp(At(r.line, 0)) :
         proc' = [proc EXCEPT ![p] =
           IF o = "ok" THEN Image(r, At(r.line, 0), r.p1Args)
           ELSE IF o = "fail" THEN [AtPrompt(r) EXCEPT !.cause = "exec"]
           ELSE Terminated(r, W_EXITCODE(0, SIGSEGV), "crash")]
  /\ UNCHANGED <<nextPid, pipes, files, inodes, ofds, sent, nread, faults, nintr, start>>

\* the parent branch: rebind, close, execvp(line[2], p1Args); when that returns,
\* parseArgs for the next stage (a store beyond args[] faults or hits nothing) and
\* continueProcessingLine
DoPipeParent(p) ==
  /\ proc[p].pc = "pipeParent"
  /\ LET r == doPipeParentFds(proc[p])
         pa == parseArgs(r.line, r.lineIndex)
     IN
       \E o \in execvp(At(r.line, 2)) :
         \E u \in IF o = "fail" /\ Overflows(pa.args) THEN {"on", "crash"} ELSE {"on"} :
           proc' = [proc EXCEPT ![p] =
             IF o = "ok" THEN Image(r, At(r.line, 2), r.p1Args)
             ELSE IF o = "fail" /\ u = "on"
             THEN [r EXCEPT !.pc = "cpl", !.args = pa.args, !.lineIndex = pa.lineIndex,
                            !.maxStore = Len(pa.args)]
             ELSE Terminated([r EXCEPT !.maxStore = IF o = "fail" THEN Len(pa.args) ELSE @],
                             W_EXITCODE(0, SIGSEGV), "crash")]
  /\ UNCHANGED <<nextPid, pipes, files, inodes, ofds, sent, nread, faults, nintr, start>>

\* ------------------------------------------------------------- running programs
\* the n-th byte a process writes
Byte(p, n) == <<p, n>>

Hole == <<0, 0>>

RECURSIVE Pad(_, _)
Pad(data, n) == IF Len(data) >= n THEN data ELSE Pad(Append(data, Hole), n)

\* write(2) of one byte at position pos of a file
WriteAt(data, pos, b) ==
  IF pos < Len(data) THEN [data EXCEPT ![pos + 1] = b] ELSE Append(Pad(data, pos), b)

\* a program writes a byte to its standard output
ProgWrite(p) ==
  /\ proc[p].pc = "run"
  /\ proc[p].nout < MaxOut
  /\ LET r == proc[p]
         d == Fd(r, 1)
         b == Byte(p, r.nout + 1)
     IN
       \/ /\ d.kind = "pw"
          /\ Holders(ReadEnd(d.id)) # {}
          /\ pipes' = [pipes EXCEPT ![d.id].buf = Append(@, b), ![d.id].hist = Append(@, b)]
          /\ proc' = [proc EXCEPT ![p].nout = @ + 1]
          /\ UNCHANGED <<inodes, ofds>>
       \/ /\ d.kind = "pw"
          /\ Holders(ReadEnd(d.id)) = {}
          /\ proc' = [proc EXCEPT ![p] = Terminated(r, W_EXITCODE(0, SIGPIPE), "signal")]
          /\ UNCHANGED <<pipes, inodes, ofds>>
       \/ /\ d.kind = "file"
          /\ LET o == ofds[d.id]
                 pos == IF o.app THEN Len(inodes[o.ino]) ELSE o.off
             IN /\ inodes' = [inodes EXCEPT ![o.ino] = WriteAt(@, pos, b)]
                /\ ofds' = [ofds EXCEPT ![d.id].off = pos + 1]
          /\ proc' = [proc EXCEPT ![p].nout = @ + 1]
          /\ UNCHANGED pipes
  /\ UNCHANGED <<nextPid, files, sent, nread, faults, nintr, start>>

\* a program reads its standard input, a pipe: the next byte, or end-of-input when
\* the pipe is empty and no process holds its write end
ProgRead(p) ==
  /\ proc[p].pc = "run"
  /\ Fd(proc[p], 0).kind = "pr"
  /\ ~proc[p].eof
  /\ LET k == Fd(proc[p], 0).id IN
       IF pipes[k].buf # <<>>
       THEN /\ pipes' = [pipes EXCEPT ![k].buf = Tail(@)]
            /\ proc' = [proc EXCEPT ![p].rlog = Append(@, Head(pipes[k].buf))]
       ELSE /\ Holders(WriteEnd(k)) = {}
            /\ proc' = [proc EXCEPT ![p].eof = TRUE]
            /\ UNCHANGED pipes
  /\ UNCHANGED <<nextPid, files, inodes, ofds, sent, nread, faults, nintr, start>>

\* a program ends with exit code 0
ProgExit(p) ==
  /\ proc[p].pc = "run"
  /\ proc' = [proc EXCEPT ![p] = Terminated(proc[p], W_EXITCODE(0, 0), "none")]
  /\ UNCHANGED <<nextPid, pipes, files, inodes, ofds, sent, nread, faults, nintr, start>>

\* ------------------------------------------------------------- signals
ShellCode == {"prompt", "fork", "store", "wait", "cpl", "pipeChild", "pipeParent"}

Alive(q) == q \in Pids /\ proc[q].pc \in ShellCode \cup {"run"}

\* an interrupt signal is delivered to the shell
Interrupt ==
  /\ nintr < MaxInterrupts
  /\ Alive(ShellPid)
  /\ ~proc[ShellPid].pending
  /\ nintr' = nintr + 1
  /\ proc' = [proc EXCEPT ![ShellPid].pending = TRUE]
  /\ UNCHANGED <<nextPid, pipes, files, inodes, ofds, sent, nread, faults, start>>

\* a handler with the test the wrong way round
signalHandlerKillsNegative(childPid) == IF childPid < 0 THEN {childPid} ELSE {}

\* the process ids signalHandler passes to kill
signalHandlerKills(childPid) == IF childPid > 0 THEN {childPid} ELSE {}

\* signalHandler(signo), in a process that still runs the shell's code
signalHandler(p) ==
  /\ proc[p].pc \in ShellCode
  /\ proc[p].pending
  /\ LET to == signalHandlerKills(proc[p].childPid) IN
       /\ sent' = IF to = {} THEN sent
                  ELSE Append(sent, [from |-> p, to |-> CHOOSE t \in to : TRUE,
                                     signo |-> SIGINT])
       /\ proc' = [q \in Pids |->
            IF q = p THEN [proc[q] EXCEPT !.pending = FALSE]
            ELSE IF q \in to /\ Alive(q) THEN [proc[q] EXCEPT !.pending = TRUE]
            ELSE proc[q]]
  /\ UNCHANGED <<nextPid, pipes, files, inodes, ofds, nread, faults, nintr, start>>

\* SIGINT in a process that has replaced its image: the default action ends it
SignalDefault(p) ==
  /\ proc[p].pc = "run"
  /\ proc[p].pending
  /\ proc' = [proc EXCEPT ![p] = Terminated(proc[p], W_EXITCODE(0, SIGINT), "signal")]
  /\ UNCHANGED <<nextPid, pipes, files, inodes, ofds, sent, nread, faults, nintr, start>>

\* ------------------------------------------------------------- the specification
Next ==
  \/ \E p \in Pids : ReadLine(p)
  \/ \E p \in Pids : MainFork(p)
  \/ \E p \in Pids : MainForkFail(p)
  \/ \E p \in Pids : StoreChildPid(p)
  \/ \E p \in Pids : WaitPid(p)
  \/ \E p \in Pids : CplRedirect(p)
  \/ \E p \in Pids : CplTerminal(p)
  \/ \E p \in Pids : CplReturn(p)
  \/ \E p \in Pids : DoPipePipeFail(p)
  \/ \E p \in Pids : DoPipeForkFail(p)
  \/ \E p \in Pids : DoPipeFork(p)
  \/ \E p \in Pids : DoPipeChild(p)
  \/ \E p \in Pids : DoPipeParent(p)
  \/ \E p \in Pids : ProgWrite(p)
  \/ \E p \in Pids : ProgRead(p)
  \/ \E p \in Pids : ProgExit(p)
  \/ \E p \in Pids : signalHandler(p)
  \/ \E p \in Pids : SignalDefault(p)
  \/ Interrupt

Spec == Init /\ [][Next]_vars

\* the same shell, reading one arbitrary line of at most MaxTokens tokens
NextAny ==
  \/ \E p \in Pids : ReadAnyLine(p)
  \/ \E p \in Pids : MainFork(p)
  \/ \E p \in Pids : MainForkFail(p)
  \/ \E p \in Pids : StoreChildPid(p)
  \/ \E p \in Pids : WaitPid(p)
  \/ \E p \in Pids : CplRedirect(p)
  \/ \E p \in Pids : CplTerminal(p)
  \/ \E p \in Pids : CplReturn(p)
  \/ \E p \in Pids : DoPipePipeFail(p)
  \/ \E p \in Pids : DoPipeForkFail(p)
  \/ \E p \in Pids : DoPipeFork(p)
  \/ \E p \in Pids : DoPipeChild(p)
  \/ \E p \in Pids : DoPipeParent(p)
  \/ \E p \in Pids : ProgWrite(p)
  \/ \E p \in Pids : ProgRead(p)
  \/ \E p \in Pids : ProgExit(p)
  \/ \E p \in Pids : signalHandler(p)
  \/ \E p \in Pids : SignalDefault(p)
  \/ Interrupt

SpecAny == Init /\ [][NextAny]_vars

\* ------------------------------------------------------------- the claims
Specials(line) == {i \in 1..Len(line) : isSpecial(line[i])}

\* prog1 args... | prog2 args...: one operator, a pipe, with a program on each side
TwoStage(line) ==
  \E i \in 2..(Len(line) - 1) : Specials(line) = {i} /\ line[i] = TokPipe

Gone(q) == proc[q].pc \in {"exited", "reaped"}

\* the bytes 1..n written by process w, in order
Written(w, n) == [i \in 1..n |-> Byte(w, i)]

C2_ExecRunsHeadOfArgv ==
  \A p \in Pids : proc[p].prog # NULL => proc[p].prog = At(proc[p].argv, 0)

PipePositions(line) == {i \in 1..Len(line) : line[i] = TokPipe}

\* N >= 1 pipe operators and nothing else special, a non-empty stage around each
WellFormedPipeline(line) ==
  /\ PipePositions(line) # {}
  /\ Specials(line) = PipePositions(line)
  /\ 1 \notin PipePositions(line)
  /\ Len(line) \notin PipePositions(line)
  /\ \A i \in PipePositions(line) : (i + 1) \notin PipePositions(line)

LastStage(line) ==
  LET m == CHOOSE i \in PipePositions(line) : \A j \in PipePositions(line) : j <= i
  IN SubSeq(line, m + 1, Len(line))

\* C3: for a well-formed pipeline, the top-level child (the process the shell
\* waits on) ends up running the last stage's argument vector, after one process
\* duplication per pipe operator.
C3_TopChildRunsLastStage ==
  \A c \in Pids :
    (proc[c].origin = "main" /\ proc[c].prog # NULL /\ WellFormedPipeline(proc[c].line))
      => /\ proc[c].argv = LastStage(proc[c].line)
         /\ Cardinality({k \in 1..Len(pipes) : pipes[k].rparent = c})
              = Cardinality(PipePositions(proc[c].line))

\* C4: a process that runs a program holds a pipe's write end only if it is the
\* write side of that pipe's fork, and the write side does not hold the read end.
C4_OnlyWriterHoldsWriteEnd ==
  \A k \in 1..Len(pipes) : \A q \in Pids :
    proc[q].pc = "run" =>
      /\ q # pipes[k].wchild => WriteEnd(k) \notin Holds(proc[q])
      /\ q = pipes[k].wchild => ReadEnd(k) \notin Holds(proc[q])

\* C5: no process created by fork is ever in the read loop, about to prompt.
C5_OnlyShellPrompts ==
  \A p \in Pids : p # ShellPid => proc[p].pc # "prompt"

C7_FailureNeverKillsShell ==
  Gone(ShellPid) => proc[ShellPid].cause = "none"

Failures == {"pipe", "fork", "exec", "redirect"}

\* C8: a process that met a failure is terminated with a nonzero status, and the
\* statuses of pipe, fork and exec failures differ.
C8_FailureStatusNonzero ==
  /\ \A p \in Pids :
       proc[p].cause \in Failures => Gone(p) /\ proc[p].status # 0
  /\ \A p, q \in Pids :
       ({proc[p].cause, proc[q].cause} \subseteq {"pipe", "fork", "exec"}
          /\ proc[p].cause # proc[q].cause /\ Gone(p) /\ Gone(q))
       => proc[p].status # proc[q].status

Content(f) == inodes[files[f]]

InitialContent == IF start = "content" THEN <<OldByte>> ELSE <<>>

\* both lines read so far were `a op f`, run by the shell's children 2 and 3, and both
\* runs are over
RanTwice(op) ==
  /\ \A c \in {2, 3} :
       /\ proc[c].ppid = ShellPid
       /\ proc[c].line = <<ProgA, op, FileF>>
       /\ Gone(c)

\* C9: whatever the file's initial state, two runs with >> leave the initial
\* content followed by both runs' output, and two runs with > leave the second
\* run's output.
C9_AppendTwiceTruncateTwice ==
  /\ RanTwice(TokAppend) =>
       /\ Exists(FileF)
       /\ Content(FileF) = InitialContent \o Written(2, proc[2].nout) \o Written(3, proc[3].nout)
  /\ RanTwice(TokOut) =>
       /\ Exists(FileF)
       /\ Content(FileF) = Written(3, proc[3].nout)

\* the shell's child that exists and is not yet reaped
TopChild == {q \in Pids : proc[q].ppid = ShellPid /\ proc[q].origin = "main"
                            /\ proc[q].pc \notin {"none", "reaped"}}

\* the shell has stored the child's id in childPid and waits for it
Supervising == proc[ShellPid].pc = "wait"

\* C10: when the handler runs in the shell while it supervises a child, exactly
\* one kill is made, of SIGINT, to that child's process id.
C10_InterruptForwardedToChild ==
  [][(Supervising /\ proc[ShellPid].pending /\ ~proc'[ShellPid].pending)
       => \E c \in TopChild :
            /\ TopChild = {c}
            /\ sent' = Append(sent, [from |-> ShellPid, to |-> c, signo |-> SIGINT])]_vars

\* the shell has forwarded an interrupt to the child it is still waiting for
C10_Witness ==
  /\ Supervising
  /\ sent # <<>>
  /\ sent[Len(sent)].from = ShellPid
  /\ sent[Len(sent)].to \in TopChild
  /\ Alive(sent[Len(sent)].to)

\* C11: whenever the shell has no top-level child that is still to be reaped (at
\* the prompt, in a built-in, between lines), childPid is 0, so that an interrupt
\* delivered then makes the handler send no signal.
C11_IdleWhenNoTopChild ==
  (Alive(ShellPid) /\ TopChild = {}) => proc[ShellPid].childPid = 0

\* a line whose first argument vector starts with the name of a built-in
BuiltInLine(line) == At(line, 0) \in {TokLs, TokRm}

\* C12: when a process reads a line whose first argument vector starts with ls or
\* rm, that step makes no process, no pipe and no open file description, leaves
\* the reader's descriptors, its childPid and the status it last waited for as
\* they were, sends no signal, touches no other process, and ends with the reader
\* back at the prompt: whatever follows the first operator of the line is not
\* interpreted.
C12_BuiltInShortCircuits ==
  [][\A p \in Pids :
       (/\ proc[p].pc = "prompt"
        /\ nread' # nread
        /\ proc'[p] # proc[p]
        /\ BuiltInLine(proc'[p].line))
       => /\ proc'[p].pc = "prompt"
          /\ proc'[p].fd = proc[p].fd
          /\ proc'[p].raw = proc[p].raw
          /\ proc'[p].childPid = proc[p].childPid
          /\ proc'[p].wstatus = proc[p].wstatus
          /\ proc'[p].prog = proc[p].prog
          /\ \A q \in Pids \ {p} : proc'[q] = proc[q]
          /\ nextPid' = nextPid
          /\ pipes' = pipes
          /\ ofds' = ofds
          /\ inodes' = inodes
          /\ sent' = sent]_vars

\* the shell has read `ls | b` and is back at the prompt, with no process and no
\* pipe made
C12_Witness ==
  /\ proc[ShellPid].pc = "prompt"
  /\ proc[ShellPid].line = <<TokLs, TokPipe, ProgB>>
  /\ nread = 1
  /\ nextPid = ShellPid + 1
  /\ pipes = <<>>

\* the last token of the line is a redirect operator: no file name follows it
EndsWithRedirect(line) == line # <<>> /\ line[Len(line)] \in RedirectOps

\* C13: a line that ends with a redirect operator with no file name does not end
\* the shell: with no pipe or fork failure the shell, having read such a line, is
\* never terminated by it.
C13_TrailingRedirectSparesShell ==
  (EndsWithRedirect(proc[ShellPid].line) /\ faults = 0)
    => proc[ShellPid].pc # "exited"

\* the index of the first operator at or after cursor c, or of the sentinel
StopAt(line, c) ==
  CHOOSE i \in c..Len(line) :
    /\ i = Len(line) \/ isSpecial(line[i + 1])
    /\ \A j \in c..(i - 1) : ~isSpecial(line[j + 1])

\* the tokens from cursor c up to, and without, the token at StopAt
Collected(line, c) == [k \in 1..(StopAt(line, c) - c) |-> line[c + k]]

\* C14: every call of parseArgs that returns, from main at cursor 0 or from doPipe
\* at the cursor behind a pipe operator, leaves in args exactly the tokens from the
\* cursor up to the first operator or the sentinel, in order, and leaves the
\* cursor on that operator or on the sentinel; for a line with no operator args
\* is the whole line and the cursor is at its end.
C14_ParseArgsCollectsRun ==
  [][\A p \in Pids :
       /\ (proc[p].pc = "prompt" /\ proc'[p].pc = "fork")
            => /\ proc'[p].args = Collected(proc'[p].line, 0)
               /\ proc'[p].lineIndex = StopAt(proc'[p].line, 0)
               /\ Specials(proc'[p].line) = {}
                    => /\ proc'[p].args = proc'[p].line
                       /\ proc'[p].lineIndex = Len(proc'[p].line)
       /\ (proc[p].pc = "pipeParent" /\ proc'[p].pc = "cpl")
            => /\ proc'[p].args = Collected(proc[p].line, proc[p].lineIndex)
               /\ proc'[p].lineIndex = StopAt(proc[p].line, proc[p].lineIndex)
               /\ proc'[p].line = proc[p].line]_vars

\* doPipe's parseArgs has collected the stage behind the pipe operator
C14_Witness ==
  \E p \in Pids :
    /\ proc[p].pc = "cpl"
    /\ proc[p].line = <<ProgA, TokPipe, FileF>>
    /\ proc[p].args = <<FileF>>
    /\ proc[p].lineIndex = 3

\* the operators continueProcessingLine has a branch for
Handled == RedirectOps \cup {TokPipe}

\* C15: whenever a process is in continueProcessingLine with the cursor on a token
\* that isSpecial takes for an operator, the token is one of <, >, >>, 2>, &>, |,
\* the six that continueProcessingLine has a branch for.
C15_EveryOperatorDispatched ==
  \A p \in Pids :
    (/\ proc[p].pc = "cpl"
     /\ At(proc[p].line, proc[p].lineIndex) # NULL
     /\ isSpecial(At(proc[p].line, proc[p].lineIndex)))
    => At(proc[p].line, proc[p].lineIndex) \in Handled

\* the standard streams each redirect operator names
Named(op) ==
  IF op \in {TokOut, TokAppend} THEN {1}
  ELSE IF op = TokErr THEN {2}
  ELSE IF op = TokBoth THEN {1, 2}
  ELSE {0}

\* a line that redirects standard output twice, the second time appending
TwiceRedirected == <<ProgA, TokOut, FileF, TokAppend, FileF>>

WellFormed(line) ==
  \A i \in 1..Len(line) :
    isSpecial(line[i]) =>
      /\ i > 1 /\ ~isSpecial(line[i - 1])
      /\ i < Len(line) /\ ~isSpecial(line[i + 1])

\* the process is in doPipe, or a redirect handler has ended it: it is, or ended,
\* in a branch of continueProcessingLine other than the terminal case
InOperatorBranch(p) ==
  \/ proc[p].pc \in {"pipeChild", "pipeParent"}
  \/ (proc[p].pc = "exited" /\ proc[p].cause = "redirect")

\* C17, as stated: for a line that starts with a plain token, well-formed or not,
\* the cursor of every process is within [0, length], length the index of the
\* sentinel, and it is at length only in the terminal case: a process in a branch
\* for an operator has its cursor in front of the sentinel.
C17_CursorAtEndOnlyInTerminalCase ==
  \A p \in Pids :
    (proc[p].pc # "none" /\ ~isSpecial(At(proc[p].line, 0))) =>
      /\ proc[p].lineIndex >= 0
      /\ proc[p].lineIndex <= Len(proc[p].line)
      /\ InOperatorBranch(p) => proc[p].lineIndex < Len(proc[p].line)

\* C17, amended: for every line, well-formed or not, the cursor of every process
\* is within [0, length]; while a process handles a line its cursor never
\* decreases and the line stays the same; the terminal case is taken only with
\* the cursor at length; and on a well-formed line the cursor is at length only
\* in the terminal case.
C17_CursorMonotoneWithinLine ==
  /\ [](\A p \in Pids :
          /\ proc[p].lineIndex >= 0
          /\ proc[p].lineIndex <= Len(proc[p].line)
          /\ (WellFormed(proc[p].line) /\ InOperatorBranch(p))
               => proc[p].lineIndex < Len(proc[p].line))
  /\ [][\A p \in Pids :
          /\ (proc[p].pc \notin {"none", "prompt"} /\ proc'[p].pc # "prompt")
               => /\ proc'[p].lineIndex >= proc[p].lineIndex
                  /\ proc'[p].line = proc[p].line
          /\ (proc[p].pc = "cpl" /\ proc'[p].pc = "run")
               => /\ proc[p].lineIndex = Len(proc[p].line)
                  /\ proc'[p].lineIndex = proc[p].lineIndex]_vars

\* `a >`: the child's cursor is on the sentinel, read as the file name, and the
\* redirect handler has ended the child
C17_Witness ==
  \E p \in Pids :
    /\ proc[p].line = <<ProgA, TokOut>>
    /\ proc[p].pc = "exited"
    /\ proc[p].cause = "redirect"
    /\ proc[p].lineIndex = Len(proc[p].line)

\* C18: when the first token of the line the shell has read is an operator, so that
\* the argument vector collected at the start of the line has no head, the shell
\* is at the prompt again as after a blank line, and no process has been made.
C18_EmptyHeadTreatedAsBlank ==
  (proc[ShellPid].line # <<>> /\ isSpecial(proc[ShellPid].line[1]))
    => /\ proc[ShellPid].pc = "prompt"
       /\ nextPid = ShellPid + 1

\* C19: parseArgs never stores beyond the argument vector: in every process the
\* highest index its last parseArgs call wrote to, that of the terminator, is
\* below MAX_ARGS.
C19_NoStoreBeyondCapacity ==
  \A p \in Pids : proc[p].maxStore < MAX_ARGS

\* C20: whenever the handler runs in the shell while a child made at main's fork
\* point exists and has not been reaped, wherever the shell is between fork
\* returning, the store to childPid and waitpid returning, the handler makes one
\* kill, of SIGINT, to that child.
C20_InterruptAlwaysReachesTopChild ==
  [][(/\ TopChild # {}
      /\ proc[ShellPid].pc \in ShellCode
      /\ proc'[ShellPid].pc = proc[ShellPid].pc
      /\ proc[ShellPid].pending
      /\ ~proc'[ShellPid].pending)
       => \E c \in TopChild :
            sent' = Append(sent, [from |-> ShellPid, to |-> c, signo |-> SIGINT])]_vars

=============================================================================
